---- MODULE Spec2Model ----
(***************************************************************************)
(* Model of src/models/tasks.py: the task registry get_task_with_name and  *)
(* the constructors of the four concrete tasks (GeqMeanSteps,              *)
(* PredictFluPos, EarlyDetection, Autoencode).                             *)
(*                                                                         *)
(* Python values are modelled as tuples so that every value of a           *)
(* dataset_args mapping is comparable with every other: None is <<>>, an   *)
(* integer v is <<v>>, and a fraction n/d (a float such as eval_frac) is   *)
(* <<n, d>> with d > 0 (exact arithmetic, no rounding).  Timestamps are    *)
(* integers counting hours; a date is a timestamp at midnight (a multiple  *)
(* of HoursPerDay).                                                        *)
(***************************************************************************)
EXTENDS Integers, Sequences, FiniteSets, TLC

VARIABLES pc, name, identifier, raised, dataset_args, lab_results, activity,
          lab_results_reader, minute_level_reader, self, frame

vars == <<pc, name, identifier, raised, dataset_args, lab_results, activity,
          lab_results_reader, minute_level_reader, self, frame>>

(* ------------------------------ bounds --------------------------------- *)

MaxParticipant == 2
MaxDay == 1
MaxResults == 2
MaxDates == 2

(* ------------------------- Python value helpers ------------------------ *)

None == <<>>
Num(v) == <<v>>
Frac(n, d) == <<n, d>>

\* Python truthiness of a value: None and numeric zero are falsy.
Truthy(v) == v # None /\ v[1] # 0

\* An unset object (a reader or a dataset that was never built).
Unset == [built |-> FALSE]

Min(a, b) == IF a < b THEN a ELSE b
Max(a, b) == IF a > b THEN a ELSE b

\* int(n / d) for d > 0: Python's int() truncates toward zero.
Trunc(n, d) == IF n >= 0 THEN n \div d ELSE -((-n) \div d)

\* The index a slice bound i denotes in a list of length n (negative bounds
\* count from the end; out-of-range bounds are clamped).
SliceIndex(i, n) == IF i < 0 THEN Max(i + n, 0) ELSE Min(i, n)
\* s[:i]
SliceTo(s, i) == SubSeq(s, 1, SliceIndex(i, Len(s)))
\* s[i:]
SliceFrom(s, i) == SubSeq(s, SliceIndex(i, Len(s)) + 1, Len(s))

Range(s) == {s[i] : i \in DOMAIN s}

\* list(set(...)): the elements of S in some iteration order.
ListsOfSet(S) ==
  {s \in [1..Cardinality(S) -> S] : \A i, j \in DOMAIN s : i # j => s[i] # s[j]}

\* d.pop(key, default): the value returned, and the mapping that is left.
PopValue(d, key, default) == IF key \in DOMAIN d THEN d[key] ELSE default
\* Mutant: the key is read with get and stays in the mapping.
PopRestKeep(d, key) == d
PopRest(d, key) == [k \in DOMAIN d \ {key} |-> d[k]]

RECURSIVE PopAll(_, _)
PopAll(d, keys) ==
  IF keys = <<>> THEN d ELSE PopAll(PopRest(d, Head(keys)), Tail(keys))

\* setattr(obj, attr, v) on an object modelled as its attribute mapping.
SetAttr(obj, attr, v) ==
  [a \in DOMAIN obj \cup {attr} |-> IF a = attr THEN v ELSE obj[a]]

(* ------------------------------ registry ------------------------------- *)

SUPPORTED_TASK_TYPES == <<"classification", "autoencoder">>

\* The attributes of the module (its imports, constants, functions and
\* classes) with the kind of object each one is bound to.
ModuleAttrs ==
  [a \in {"__name__", "__doc__", "__file__", "__package__", "__loader__",
          "__spec__", "__builtins__", "sys", "td", "classification_eval", "pd",
          "SUPPORTED_TASK_TYPES", "get_task_with_name", "Task",
          "MinuteLevelTask", "GeqMeanSteps", "PredictFluPos",
          "EarlyDetection", "Autoencode"} |->
     CASE a \in {"__name__", "__file__", "__package__"} -> "str"
       [] a = "__doc__" -> "NoneType"
       [] a \in {"__loader__", "__spec__"} -> "object"
       [] a = "__builtins__" -> "dict"
       [] a \in {"sys", "td", "pd"} -> "module"
       [] a \in {"classification_eval", "get_task_with_name"} -> "function"
       [] a = "SUPPORTED_TASK_TYPES" -> "list"
       [] OTHER -> "class"]

\* The classes of the Task hierarchy and the concrete tasks among them.
TaskTypes == {"Task", "MinuteLevelTask", "GeqMeanSteps", "PredictFluPos",
              "EarlyDetection", "Autoencode"}
ConcreteTasks == {"GeqMeanSteps", "PredictFluPos", "EarlyDetection", "Autoencode"}
DateThresholdTasks == {"GeqMeanSteps", "PredictFluPos", "Autoencode"}

\* Mutant: the isinstance check is missing.
IsTypeAlways(attr) == TRUE

\* isinstance(identifier, type)
IsType(attr) == ModuleAttrs[attr] = "class"

\* What a call that raised has returned: nothing.
NoValue == "(nothing)"

\* get_task_with_name(name): the exception raised ("none" on return) and
\* the object returned.
get_task_with_name(n) ==
  IF n \notin DOMAIN ModuleAttrs
    THEN [raised |-> "NameError", value |-> NoValue]
    ELSE IF IsType(n)
      THEN [raised |-> "none", value |-> n]
      ELSE [raised |-> "TypeError", value |-> NoValue]

\* The names callers ask for: every module attribute and two unknown names.
Names == DOMAIN ModuleAttrs \cup {"not_a_task", "predictflupos"}

(* ------------------------------- readers ------------------------------- *)

HoursPerDay == 24
Participants == 1..MaxParticipant
Dates == {d * HoursPerDay : d \in 0..MaxDay}
Hours == {0, 12}
Timestamps == {d + h : d \in Dates, h \in Hours}

\* td.LabResultsReader(pos_only): the results table (one row per lab
\* result, indexed by participant_id) and the participants that occur in it.
LabResultsReader(pos_only) ==
  LET results == {r \in lab_results : pos_only => r.positive}
  IN  [built |-> TRUE,
       results |-> results,
       participant_ids |-> {r.participant_id : r \in results}]

\* td.MinuteLevelActivityReader(...): participant_dates holds the usable
\* (participant, date) pairs of the given participants within the date bounds.
MinuteLevelActivityReader(participant_ids, min_date, max_date, window, missing) ==
  [built |-> TRUE,
   participant_dates |->
     {x \in activity :
        /\ x[1] \in participant_ids
        /\ min_date # None => x[2] >= min_date[1]
        /\ max_date # None => x[2] <= max_date[1]}]

\* minute_level_reader.split_participant_dates(date, eval_frac): the pairs
\* before the date go to train and those from the date on to eval; with an
\* eval_frac the reader keeps any part of the later pairs for eval.
split_participant_dates(reader, date, eval_frac) ==
  LET before == {x \in reader.participant_dates : x[2] < date[1]}
      after  == {x \in reader.participant_dates : x[2] >= date[1]}
  IN  IF eval_frac = None
        THEN {<<before, after>>}
        ELSE {<<before, e>> : e \in SUBSET after}

\* A dataset constructor: cls(minute_level_reader, lab_results_reader,
\* participant_dates = ..., **kwargs).  The readers are shared objects (the
\* variables lab_results_reader and minute_level_reader).
Dataset(cls, participant_dates, kwargs) ==
  [built |-> TRUE, cls |-> cls, participant_dates |-> participant_dates,
   kwargs |-> kwargs]

(* ------------------------------ Task ----------------------------------- *)

\* Task.__init__: every is_<task_type> attribute is set to False.  No
\* constructor below calls it: MinuteLevelTask.__init__ and
\* EarlyDetection.__init__ do not call super().__init__().
RECURSIVE TaskInit(_, _)
TaskInit(obj, types) ==
  IF types = <<>> THEN obj
  ELSE TaskInit(SetAttr(obj, "is_" \o Head(types), FALSE), Tail(types))

\* Mutant: a missing key is reported as a ValueError.
ValueErrorKind == "ValueError"
\* raise KeyError(...): the kind of error a missing required key raises.
MissingKeyError == "KeyError"

\* The outcome of a constructor: the exception raised ("none" on return),
\* the instance's attributes, what is left of the caller's mapping, the two
\* readers and the constructor's locals.
Outcome(exc, obj, args, lrr, mlr, locals) ==
  [raised |-> exc, self |-> obj, dataset_args |-> args,
   lab_results_reader |-> lrr, minute_level_reader |-> mlr, frame |-> locals]

(* -------------------------- MinuteLevelTask ---------------------------- *)

\* The keys MinuteLevelTask.__init__ pops, in the order it pops them.
MinuteLevelTaskKeys ==
  <<"split_date", "eval_frac", "min_date", "max_date", "day_window_size",
    "max_missing_days_in_window">>

\* MinuteLevelTask.__init__(self, base_dataset, dataset_args): the outcomes
\* it can have (one per result of split_participant_dates).
MinuteLevelTaskInit(obj, base_dataset, args) ==
  LET split_date == PopValue(args, "split_date", None)
      eval_frac == PopValue(args, "eval_frac", None)
  IN  IF ~Truthy(split_date)
        THEN {Outcome(MissingKeyError, obj, PopAll(args, <<"split_date", "eval_frac">>),
                      Unset, Unset, <<>>)}
        ELSE
          LET min_date == PopValue(args, "min_date", None)
              max_date == PopValue(args, "max_date", None)
              day_window_size == PopValue(args, "day_window_size", None)
              max_missing == PopValue(args, "max_missing_days_in_window", None)
              rest == PopAll(args, MinuteLevelTaskKeys)
              lrr == LabResultsReader(FALSE)
              mlr == MinuteLevelActivityReader(lrr.participant_ids, min_date,
                                               max_date, day_window_size, max_missing)
          IN  {Outcome("none",
                       SetAttr(SetAttr(obj, "train_dataset",
                                       Dataset(base_dataset, split[1], rest)),
                               "eval_dataset", Dataset(base_dataset, split[2], rest)),
                       rest, lrr, mlr,
                       [train_participant_dates |-> split[1],
                        eval_participant_dates |-> split[2]])
               : split \in split_participant_dates(mlr, split_date, eval_frac)}

\* A subclass constructor of the form
\*   super().__init__(base_dataset, dataset_args = dataset_args); self.<flag> = True
SubclassInit(obj, base_dataset, args, flag) ==
  {IF o.raised = "none" THEN [o EXCEPT !.self = SetAttr(o.self, flag, TRUE)] ELSE o
   : o \in MinuteLevelTaskInit(obj, base_dataset, args)}

GeqMeanStepsInit(obj, args) ==
  SubclassInit(obj, "MeanStepsDataset", args, "is_classification")
PredictFluPosInit(obj, args) ==
  SubclassInit(obj, "MinuteLevelActivtyDataset", args, "is_classification")
AutoencodeInit(obj, args) ==
  SubclassInit(obj, "AutoencodeDataset", args, "is_autoencoder")

(* --------------------------- EarlyDetection ---------------------------- *)

\* The keys EarlyDetection.__init__ pops, in the order it pops them.
EarlyDetectionKeys ==
  <<"eval_frac", "min_date", "max_date", "day_window_size", "window_pad",
    "max_missing_days_in_window">>

DefaultDayWindowSize == 4
DefaultWindowPad == 20

\* trigger_datetime.dt.floor("D")
FloorDay(t) == t - (t % HoursPerDay)

\* pos_dates["timestamp"] = pos_dates["trigger_datetime"].dt.floor("D"):
\* the table with the new column.
WithTimestamp(results) ==
  {[participant_id |-> r.participant_id,
    trigger_datetime |-> r.trigger_datetime,
    positive |-> r.positive,
    timestamp |-> FloorDay(r.trigger_datetime)] : r \in results}

\* Mutant: the window size is left out of the offset.
DeltaPadOnly(window_pad, day_window_size) == window_pad[1] * HoursPerDay

\* pd.to_timedelta(window_pad + day_window_size, unit = "days")
Delta(window_pad, day_window_size) ==
  (window_pad[1] + day_window_size[1]) * HoursPerDay

\* label_date, after and before: the (index, value) items of the timestamp
\* column, shifted by delta.
LabelDate(pos_dates) == {<<r.participant_id, r.timestamp>> : r \in pos_dates}
After(pos_dates, delta) == {<<r.participant_id, r.timestamp + delta>> : r \in pos_dates}
Before(pos_dates, delta) == {<<r.participant_id, r.timestamp - delta>> : r \in pos_dates}

\* Mutant: the candidates are not intersected with the valid dates.
NewValidDatesUnfiltered(pos_dates, delta, orig_valid_dates) ==
  LabelDate(pos_dates) \cup After(pos_dates, delta) \cup Before(pos_dates, delta)

\* set(label_date + after + before).intersection(orig_valid_dates)
NewValidDates(pos_dates, delta, orig_valid_dates) ==
  (LabelDate(pos_dates) \cup After(pos_dates, delta) \cup Before(pos_dates, delta))
    \cap orig_valid_dates

\* Mutant: the index is taken from eval_frac instead of 1 - eval_frac.
SplitIndexEvalFrac(eval_frac, n) == Trunc(eval_frac[1] * n, eval_frac[2])

\* int((1 - eval_frac) * n_valid_participants)
SplitIndex(eval_frac, n) == Trunc((eval_frac[2] - eval_frac[1]) * n, eval_frac[2])

\* Mutant: a negative index does not count from the end of the train slice.
TrainParticipantsNoWrap(valid_participants, split_index) ==
  SubSeq(valid_participants, 1, Min(split_index, Len(valid_participants)))
\* Mutant: the eval slice starts one participant early.
EvalParticipantsOverlap(valid_participants, split_index) ==
  SliceFrom(valid_participants, split_index - 1)

\* valid_participants[:split_index] and valid_participants[split_index:]
TrainParticipants(valid_participants, split_index) ==
  SliceTo(valid_participants, split_index)
EvalParticipants(valid_participants, split_index) ==
  SliceFrom(valid_participants, split_index)

\* [x for x in new_valid_dates if x[0] in participants]
DatesOfParticipants(new_valid_dates, participants) ==
  {x \in new_valid_dates : x[1] \in Range(participants)}

\* EarlyDetection.__init__(self, dataset_args): the outcomes it can have (one
\* per iteration order of the set of valid participants).
EarlyDetectionInit(obj, args) ==
  LET eval_frac == PopValue(args, "eval_frac", None)
  IN  IF ~Truthy(eval_frac)
        THEN {Outcome(MissingKeyError, obj, PopRest(args, "eval_frac"), Unset, Unset, <<>>)}
        ELSE
          LET min_date == PopValue(args, "min_date", None)
              max_date == PopValue(args, "max_date", None)
              day_window_size ==
                PopValue(args, "day_window_size", Num(DefaultDayWindowSize))
              window_pad == PopValue(args, "window_pad", Num(DefaultWindowPad))
              max_missing == PopValue(args, "max_missing_days_in_window", None)
              rest == PopAll(args, EarlyDetectionKeys)
              lrr == LabResultsReader(TRUE)
              mlr == MinuteLevelActivityReader(lrr.participant_ids, min_date,
                                               max_date, day_window_size, max_missing)
              pos_dates == WithTimestamp(lrr.results)
              delta == Delta(window_pad, day_window_size)
              orig_valid_dates == mlr.participant_dates
              new_valid_dates == NewValidDates(pos_dates, delta, orig_valid_dates)
              participants == {x[1] : x \in new_valid_dates}
              n_valid_participants == Cardinality(participants)
              split_index == SplitIndex(eval_frac, n_valid_participants)
          IN  {LET train_participants == TrainParticipants(valid_participants, split_index)
                   eval_participants == EvalParticipants(valid_participants, split_index)
                   train_participant_dates ==
                     DatesOfParticipants(new_valid_dates, train_participants)
                   eval_participant_dates ==
                     DatesOfParticipants(new_valid_dates, eval_participants)
               IN  Outcome("none",
                     SetAttr(SetAttr(SetAttr(obj, "train_dataset",
                       Dataset("EarlyDetectionDataset", train_participant_dates, rest)),
                       "eval_dataset",
                       Dataset("EarlyDetectionDataset", eval_participant_dates, rest)),
                       "is_classification", TRUE),
                     rest,
                     [lrr EXCEPT !.results = pos_dates],
                     mlr,
                     [eval_frac |-> eval_frac,
                      delta |-> delta,
                      new_valid_dates |-> new_valid_dates,
                      valid_participants |-> valid_participants,
                      split_index |-> split_index,
                      train_participants |-> train_participants,
                      eval_participants |-> eval_participants,
                      train_participant_dates |-> train_participant_dates,
                      eval_participant_dates |-> eval_participant_dates])
               : valid_participants \in ListsOfSet(participants)}

(* ------------------------ the inputs of a run -------------------------- *)

\* The subsets of S with at most k elements.
RECURSIVE SubsetsUpTo(_, _)
SubsetsUpTo(S, k) ==
  IF k = 0 THEN {{}}
  ELSE LET smaller == SubsetsUpTo(S, k - 1)
       IN  smaller \cup {T \cup {x} : T \in smaller, x \in S}

Row(p, t, pos) == [participant_id |-> p, trigger_datetime |-> t, positive |-> pos]
PositiveRows == {Row(p, t, TRUE) : p \in Participants, t \in Timestamps}
Pairs == Participants \X Dates

\* The values a caller gives each key of dataset_args.
EvalFracs == {Frac(0, 1), Frac(1, 3), Frac(1, 2), Frac(1, 1), Frac(3, 2), Frac(-1, 2)}
KeyValues ==
  [k \in {"split_date", "eval_frac", "min_date", "max_date", "day_window_size",
          "window_pad", "max_missing_days_in_window", "scaler"} |->
     CASE k = "eval_frac" -> EvalFracs
       [] k = "split_date" -> {Num(2 * HoursPerDay)}
       [] k = "min_date" -> {Num(0)}
       [] k = "max_date" -> {Num(3 * HoursPerDay)}
       [] k = "day_window_size" -> {Num(1)}
       [] k = "window_pad" -> {Num(1)}
       [] k = "max_missing_days_in_window" -> {Num(2)}
       [] k = "scaler" -> {Num(7)}]

\* Every mapping over any subset of the given keys.
RECURSIVE ArgDicts(_)
ArgDicts(keys) ==
  IF keys = {} THEN {<<>>}
  ELSE LET k == CHOOSE x \in keys : TRUE
           rest == ArgDicts(keys \ {k})
       IN  rest \cup {d @@ [x \in {k} |-> v] : d \in rest, v \in KeyValues[k]}
AllArgDicts == ArgDicts(DOMAIN KeyValues)

\* The lab results and the usable participant-days of a small study: three
\* participants with positive results and one with a negative result only.
StudyLabResults ==
  {Row(1, 2 * HoursPerDay + 12, TRUE), Row(2, HoursPerDay, TRUE),
   Row(3, 3 * HoursPerDay + 12, TRUE), Row(3, 0, TRUE),
   Row(4, 2 * HoursPerDay, FALSE)}
StudyActivity ==
  {<<1, 0>>, <<1, 2 * HoursPerDay>>, <<1, 3 * HoursPerDay>>, <<1, 4 * HoursPerDay>>,
   <<2, HoursPerDay>>, <<3, 3 * HoursPerDay>>, <<4, HoursPerDay>>}

\* The mappings of the runs that vary the data: an accepted eval_frac and a
\* window of one or two days.
DataArgDicts ==
  {[eval_frac |-> f, day_window_size |-> Num(1), window_pad |-> w]
   : f \in {Frac(1, 2), Frac(3, 2)}, w \in {Num(0), Num(1)}}

Fresh ==
  /\ pc = "start"
  /\ identifier = NoValue
  /\ raised = "none"
  /\ lab_results_reader = Unset
  /\ minute_level_reader = Unset
  /\ self = <<>>
  /\ frame = <<>>

\* Any name, with one mapping and the small study.
InitRegistry ==
  /\ name \in Names
  /\ dataset_args = [eval_frac |-> Frac(1, 2), split_date |-> Num(2 * HoursPerDay)]
  /\ lab_results = StudyLabResults
  /\ activity = StudyActivity
  /\ Fresh

\* Any mapping, with the small study.
InitArgs ==
  /\ name \in ConcreteTasks
  /\ dataset_args \in AllArgDicts
  /\ lab_results = StudyLabResults
  /\ activity = StudyActivity
  /\ Fresh

\* Any lab results and usable participant-days within the bounds.
InitData ==
  /\ name = "EarlyDetection"
  /\ dataset_args \in DataArgDicts
  /\ lab_results \in SubsetsUpTo(PositiveRows, MaxResults)
  /\ activity \in SubsetsUpTo(Pairs, MaxDates)
  /\ Fresh

Init == InitRegistry \/ InitArgs \/ InitData

(* ------------------------------ actions -------------------------------- *)

\* The caller resolves the task name.
GetTaskWithName ==
  /\ pc = "start"
  /\ LET r == get_task_with_name(name)
     IN  /\ raised' = r.raised
         /\ identifier' = r.value
         /\ pc' = IF r.raised = "none" THEN "resolved" ELSE "failed"
  /\ UNCHANGED <<name, dataset_args, lab_results, activity, lab_results_reader,
                 minute_level_reader, self, frame>>

\* The caller instantiates the resolved task: o is the constructor's outcome.
Construct(o) ==
  /\ raised' = o.raised
  /\ self' = o.self
  /\ dataset_args' = o.dataset_args
  /\ lab_results_reader' = o.lab_results_reader
  /\ minute_level_reader' = o.minute_level_reader
  /\ frame' = o.frame
  /\ pc' = IF o.raised = "none" THEN "done" ELSE "failed"
  /\ UNCHANGED <<name, identifier, lab_results, activity>>

ConstructGeqMeanSteps ==
  /\ pc = "resolved" /\ identifier = "GeqMeanSteps"
  /\ \E o \in GeqMeanStepsInit(<<>>, dataset_args) : Construct(o)

ConstructPredictFluPos ==
  /\ pc = "resolved" /\ identifier = "PredictFluPos"
  /\ \E o \in PredictFluPosInit(<<>>, dataset_args) : Construct(o)

ConstructEarlyDetection ==
  /\ pc = "resolved" /\ identifier = "EarlyDetection"
  /\ \E o \in EarlyDetectionInit(<<>>, dataset_args) : Construct(o)

ConstructAutoencode ==
  /\ pc = "resolved" /\ identifier = "Autoencode"
  /\ \E o \in AutoencodeInit(<<>>, dataset_args) : Construct(o)

Next ==
  \/ GetTaskWithName
  \/ ConstructGeqMeanSteps
  \/ ConstructPredictFluPos
  \/ ConstructEarlyDetection
  \/ ConstructAutoencode

Spec == Init /\ [][Next]_vars

(* ------------------------------ claims --------------------------------- *)

\* A task of the given class was constructed.
Constructed(task) == pc = "done" /\ identifier = task
ParticipantsOf(participant_dates) == {x[1] : x \in participant_dates}
TrainDates == self.train_dataset.participant_dates
EvalDates == self.eval_dataset.participant_dates
\* A step of a constructor (the caller's instantiation of the resolved task).
ConstructorStep == pc = "resolved" /\ pc' # "resolved"

\* C1: in a constructed EarlyDetection task no participant occurs both in a
\* pair of the train set and in a pair of the eval set.
C1_ParticipantExclusive ==
  Constructed("EarlyDetection") =>
    ParticipantsOf(TrainDates) \cap ParticipantsOf(EvalDates) = {}

\* C1 witness: an EarlyDetection task whose two sets are both non-empty.
C1_Witness ==
  /\ Constructed("EarlyDetection")
  /\ TrainDates # {}
  /\ EvalDates # {}

\* The day-floored trigger dates of the positive results of participant p:
\* the midnights L with L <= trigger_datetime < L + one day.
TriggerDates(p) ==
  {L \in {r.trigger_datetime - h :
            r \in {q \in lab_results : q.positive /\ q.participant_id = p},
            h \in 0..(HoursPerDay - 1)} :
     L % HoursPerDay = 0}

\* window_pad + day_window_size days, from the mapping the caller passes.
WindowDays(args) ==
  (IF "window_pad" \in DOMAIN args THEN args["window_pad"][1] ELSE DefaultWindowPad)
  + (IF "day_window_size" \in DOMAIN args THEN args["day_window_size"][1]
     ELSE DefaultDayWindowSize)

\* C2: the intersected candidate set of EarlyDetection is exactly the set of
\* valid pairs (p, d) with d = L, L + delta or L - delta for the day-floored
\* trigger date L of some positive result of p, delta = window_pad +
\* day_window_size days.
C2_CandidateSetExact ==
  [][(ConstructorStep /\ identifier = "EarlyDetection" /\ pc' = "done") =>
       frame'.new_valid_dates =
         {x \in minute_level_reader'.participant_dates :
            \E L \in TriggerDates(x[1]) :
              x[2] \in {L, L + WindowDays(dataset_args) * HoursPerDay,
                        L - WindowDays(dataset_args) * HoursPerDay}}]_vars

\* C2 witness: a participant whose candidate set holds a trigger date and
\* both offsets of it, while a valid date between them is excluded.
C2_Witness ==
  /\ Constructed("EarlyDetection")
  /\ \E x \in frame.new_valid_dates :
       /\ <<x[1], x[2] + frame.delta>> \in frame.new_valid_dates
       /\ <<x[1], x[2] - frame.delta>> \in frame.new_valid_dates
       /\ <<x[1], x[2] + HoursPerDay>> \in
            minute_level_reader.participant_dates \ frame.new_valid_dates

\* C3: constructing a date-threshold task from a mapping without split_date,
\* or EarlyDetection from a mapping without eval_frac, raises KeyError and
\* sets no train or eval dataset on the instance.
C3_MissingKeyFails ==
  [][(/\ ConstructorStep
      /\ \/ identifier \in DateThresholdTasks /\ "split_date" \notin DOMAIN dataset_args
         \/ identifier = "EarlyDetection" /\ "eval_frac" \notin DOMAIN dataset_args)
     => /\ pc' = "failed"
        /\ raised' = "KeyError"
        /\ "train_dataset" \notin DOMAIN self'
        /\ "eval_dataset" \notin DOMAIN self']_vars

\* C3 witness: a date-threshold task (whose split_date, when given, is never
\* falsy here) failed with KeyError.
C3_Witness ==
  /\ pc = "failed"
  /\ identifier = "PredictFluPos"
  /\ raised = "KeyError"

RecognizedKeys(task) ==
  IF task = "EarlyDetection"
    THEN {"eval_frac", "min_date", "max_date", "day_window_size", "window_pad",
          "max_missing_days_in_window"}
    ELSE {"split_date", "eval_frac", "min_date", "max_date", "day_window_size",
          "max_missing_days_in_window"}

\* C5: after a successful construction the caller's mapping holds none of the
\* keys the task recognizes, and both dataset constructors receive exactly
\* the other keys with their values.
C5_ArgsConsumed ==
  [][(ConstructorStep /\ pc' = "done") =>
       LET remainder ==
             [k \in DOMAIN dataset_args \ RecognizedKeys(identifier) |-> dataset_args[k]]
       IN  /\ dataset_args' = remainder
           /\ self'.train_dataset.kwargs = remainder
           /\ self'.eval_dataset.kwargs = remainder]_vars

\* C5 witness: an EarlyDetection task whose datasets received an unrecognized
\* key and split_date (which EarlyDetection does not recognize).
C5_Witness ==
  /\ Constructed("EarlyDetection")
  /\ DOMAIN self.train_dataset.kwargs = {"scaler", "split_date"}
  /\ DOMAIN dataset_args = {"scaler", "split_date"}

\* C6: after a construction the lab-results reader (its results table and
\* participant_ids) and the minute-level reader (its participant_dates) are
\* as they were built.
C6_ReadersNotMutated ==
  [][(ConstructorStep /\ pc' = "done") =>
       LET lrr == LabResultsReader(identifier = "EarlyDetection")
           mlr == MinuteLevelActivityReader(
                    lrr.participant_ids,
                    PopValue(dataset_args, "min_date", None),
                    PopValue(dataset_args, "max_date", None),
                    PopValue(dataset_args, "day_window_size", None),
                    PopValue(dataset_args, "max_missing_days_in_window", None))
       IN  /\ lab_results_reader'.results = lrr.results
           /\ lab_results_reader'.participant_ids = lrr.participant_ids
           /\ minute_level_reader'.participant_dates = mlr.participant_dates]_vars

\* C7: a constructed task has both capability flags, and only the flag of
\* its own type is true.
C7_CapabilityFlags ==
  pc = "done" =>
    /\ {"is_classification", "is_autoencoder"} \subseteq DOMAIN self
    /\ self["is_classification"] = (identifier # "Autoencode")
    /\ self["is_autoencoder"] = (identifier = "Autoencode")

\* C8: every pair passed to the train or the eval dataset is one of the
\* minute-level reader's participant_dates.
C8_ValiditySubset ==
  pc = "done" =>
    /\ TrainDates \subseteq minute_level_reader.participant_dates
    /\ EvalDates \subseteq minute_level_reader.participant_dates

\* C8 witness: an EarlyDetection task with pairs in both sets, built from
\* lab results one of whose trigger dates is not a valid date.
C8_Witness ==
  /\ Constructed("EarlyDetection")
  /\ TrainDates # {}
  /\ EvalDates # {}
  /\ \E r \in lab_results_reader.results :
       <<r.participant_id, r.timestamp>> \notin minute_level_reader.participant_dates

\* floor(n / d) for d > 0: the k with k * d <= n < (k + 1) * d.
IsFloor(k, n, d) == k * d <= n /\ n < (k + 1) * d

C10_SplitExhaustive ==
  Constructed("EarlyDetection") =>
    /\ TrainDates \cup EvalDates = frame.new_valid_dates
    /\ TrainDates \cap EvalDates = {}
    /\ \A x, y \in frame.new_valid_dates :
         x[1] = y[1] => (x \in TrainDates <=> y \in TrainDates)

\* C10 witness: an eval_frac above 1 (a negative split index) with pairs in
\* both sets.
C10_Witness ==
  /\ Constructed("EarlyDetection")
  /\ frame.eval_frac[1] > frame.eval_frac[2]
  /\ frame.split_index < 0
  /\ TrainDates # {}
  /\ EvalDates # {}

====
